---- MODULE Spec2Model ----
(***************************************************************************)
(* Lineage tracing engine of ERDgenerator.py: the expression classifier    *)
(* (parse_column_expression, is_calculation_expression), the recursive     *)
(* tracer (trace_column over build_simple_graph's dictionary) and the      *)
(* chain condenser (condense_if_no_calc).                                  *)
(*                                                                         *)
(* Python strings are sequences of one-character strings, so that lower(), *)
(* strip(), the `in` substring test and re.search are computed on the      *)
(* characters, as the code computes them.                                  *)
(***************************************************************************)
EXTENDS Integers, Sequences, FiniteSets, TLC

VARIABLES
    \* ---- one top-level trace_column(col_name, start_view, obj_def_map, graph)
    rows,         \* the metadata rows that carry an edge: <<source, dependent>>
    graph,        \* build_simple_graph(rows): the items <<parent, children>> in order
    obj_def_map,  \* object name -> SQL definition (NoDef: the key is absent)
    col_name,     \* the traced column
    start_view,   \* the object the top-level call starts from
    visited,      \* the visited set of this top-level invocation
    stack,        \* the trace_column calls that stand in their loop, innermost last
    ret,          \* what the call that returned last handed over, <<>> once taken
    chain_out,    \* the chain the top-level call returned
    condensed,    \* condense_if_no_calc(chain_out, col_name), as the renderer calls it
    calls,        \* every call made so far, in order: <<depth, object, column>>;
                  \* with threads, <<thread, object, column>>
    pc,           \* "start", "running", "done" (top-level call returned), "rendered"
    runs,         \* the chains of the top-level calls made before, on the same inputs
    \* ---- one call of parse_column_expression(view_sql, col_name)
    c_sql, c_col, c_out, c_pc,
    \* ---- one call of condense_if_no_calc(chain_lines, col_name)
    k_chain, k_col, k_out, k_pc,
    \* ---- build_simple_graph(data) and the parents and children of one name
    g_rows,       \* the rows of data: <<source_table_name, dependent_view_name>>
    g_name,       \* the object looked up, and the view whose diagram is drawn
    g_graph, g_parents, g_children, g_pc,
    \* ---- build_dependency_graph(view_name, ...) over g_rows as view_deps_df
    d_visited,    \* the visited set of recurse
    d_nodes,      \* the nodes given to graph.node, in order
    d_edges,      \* the edges given to graph.edge, in order: <<dependent, source>>
    d_stack,      \* the calls of recurse in their loop over deps, innermost last
    d_pc,
    \* ---- several top-level trace_column calls run by threads over one map and graph
    threads       \* thread -> its call: arguments, visited set, stack, chain

vars == <<rows, graph, obj_def_map, col_name, start_view, visited, stack, ret, chain_out,
          condensed, calls, pc, runs, c_sql, c_col, c_out, c_pc, k_chain, k_col, k_out,
          k_pc, g_rows, g_name, g_graph, g_parents, g_children, g_pc, d_visited, d_nodes,
          d_edges, d_stack, d_pc, threads>>

trace_vars == <<rows, graph, obj_def_map, col_name, start_view, visited, stack, ret,
                chain_out, condensed, calls, pc, runs>>
classify_vars == <<c_sql, c_col, c_out, c_pc>>
condense_vars == <<k_chain, k_col, k_out, k_pc>>
graph_vars == <<g_rows, g_name, g_graph, g_parents, g_children, g_pc>>
diagram_vars == <<d_visited, d_nodes, d_edges, d_stack, d_pc>>
\* what the tracer, the classifier and the condenser run on their own leave alone
aside_vars == <<graph_vars, diagram_vars, threads>>

----------------------------------------------------------------------------
(* Bounds of the model. *)

\* longest edge list (rows with a source and a dependent) of a trace
MaxEdges == 2
\* the interpreter's recursion limit: the most calls that may stand in their loop
RecursionLimit == 4
\* most top-level calls made before the one in progress, on the same inputs
MaxRuns == 1
\* most items in a generated projection list
MaxItems == 2
\* longest chain handed to condense_if_no_calc on its own
MaxChain == 3
\* top-level calls that run at the same time
MaxThreads == 2

----------------------------------------------------------------------------
(* Python str operations. *)

UpperAlpha == <<"A","B","C","D","E","F","G","H","I","J","K","L","M","N","O","P","Q","R","S","T","U","V","W","X","Y","Z">>
LowerAlpha == <<"a","b","c","d","e","f","g","h","i","j","k","l","m","n","o","p","q","r","s","t","u","v","w","x","y","z">>

InSeq(c, s) == \E i \in 1..Len(s) : s[i] = c
IndexOf(c, s) == CHOOSE i \in 1..Len(s) : s[i] = c

lower_char(c) == IF InSeq(c, UpperAlpha) THEN LowerAlpha[IndexOf(c, UpperAlpha)] ELSE c
upper_char(c) == IF InSeq(c, LowerAlpha) THEN UpperAlpha[IndexOf(c, LowerAlpha)] ELSE c

\* a function over 1..n as the tuple of its values
AsTuple(f) == SubSeq(f, 1, Len(f))

\* str.lower(), str.upper()
str_lower(s) == AsTuple([i \in 1..Len(s) |-> lower_char(s[i])])
str_upper(s) == AsTuple([i \in 1..Len(s) |-> upper_char(s[i])])

\* `sub in s`
Contains(sub, s) ==
    \E i \in 0..(Len(s) - Len(sub)) : SubSeq(s, i + 1, i + Len(sub)) = sub

IsSpace(c) == c \in {" ", "\n", "\t"}

\* str.strip()
str_strip(s) ==
    LET keep == {i \in 1..Len(s) : ~IsSpace(s[i])}
    IN  IF keep = {} THEN <<>>
        ELSE SubSeq(s, CHOOSE i \in keep : \A j \in keep : i <= j,
                       CHOOSE i \in keep : \A j \in keep : j <= i)

RECURSIVE Join(_)
\* "".join(parts)
Join(parts) == IF parts = <<>> THEN <<>> ELSE Head(parts) \o Join(Tail(parts))

\* Python's None, True and False as the three outcomes of the classifier
None == "None"
True == "True"
False == "False"

----------------------------------------------------------------------------
(* sqlparse, as far as parse_column_expression uses it: the lexer's token   *)
(* types and the grouping passes that build the token tree.  A token is     *)
(* [tt, v, kids]: its type, its text (token.value) and, for a group, its    *)
(* sub-tokens (token.tokens).                                               *)

Tok(tt, v) == [tt |-> tt, v |-> v, kids |-> <<>>]
Grp(tt, kids) ==
    [tt |-> tt, v |-> Join(AsTuple([i \in 1..Len(kids) |-> kids[i].v])), kids |-> kids]
NoTok == Tok("NoToken", <<>>)

GroupTypes == {"Statement", "Parenthesis", "Function", "Identifier", "Operation",
               "IdentifierList"}
is_group(t) == t.tt \in GroupTypes
is_keyword(t) == t.tt \in {"Keyword", "DML"}
is_whitespace(t) == t.tt \in {"Whitespace", "Newline"}

IsWordChar(c) == InSeq(c, UpperAlpha) \/ InSeq(c, LowerAlpha) \/ c = "_"

\* words the lexer types as keywords wherever they stand
HardKeywords == {<<"C","A","S","E">>, <<"I","N">>, <<"V","A","L","U","E","S">>, <<"U","S","I","N","G">>, <<"F","R","O","M">>, <<"A","S">>}
\* the other keywords of the texts modelled here
SoftKeywords == {<<"W","H","E","R","E">>, <<"G","R","O","U","P">>, <<"O","R","D","E","R">>, <<"H","A","V","I","N","G">>, <<"L","I","M","I","T">>, <<"B","Y">>,
                 <<"W","H","E","N">>, <<"T","H","E","N">>, <<"E","L","S","E">>, <<"E","N","D">>, <<"O","N">>, <<"J","O","I","N">>,
                 <<"D","I","S","T","I","N","C","T">>, <<"U","N","I","O","N">>}
DmlWords == {<<"S","E","L","E","C","T">>, <<"I","N","S","E","R","T">>, <<"U","P","D","A","T","E">>, <<"D","E","L","E","T","E">>}

RECURSIVE WordEnd(_, _)
WordEnd(s, i) == IF i < Len(s) /\ IsWordChar(s[i + 1]) THEN WordEnd(s, i + 1) ELSE i

\* the type of the word s[i..j]; a word directly before "(" is a function name
WordType(s, i, j) ==
    LET w == str_upper(SubSeq(s, i, j))
    IN  IF w \in HardKeywords THEN "Keyword"
        ELSE IF j < Len(s) /\ s[j + 1] = "(" THEN "Name"
        ELSE IF w \in DmlWords THEN "DML"
        ELSE IF w \in SoftKeywords THEN "Keyword"
        ELSE "Name"

CharType(c) ==
    IF c = "\n" THEN "Newline"
    ELSE IF c \in {" ", "\t"} THEN "Whitespace"
    ELSE IF c \in {",", "(", ")", ";"} THEN "Punctuation"
    ELSE IF c \in {"+", "-", "/", "%"} THEN "Operator"
    ELSE IF c = "*" THEN "Wildcard"
    ELSE "Error"

RECURSIVE Lex(_, _)
\* the lexer: the tokens of s from position i on
Lex(s, i) ==
    IF i > Len(s) THEN <<>>
    ELSE IF IsWordChar(s[i])
         THEN LET j == WordEnd(s, i)
              IN  <<Tok(WordType(s, i, j), SubSeq(s, i, j))>> \o Lex(s, j + 1)
         ELSE <<Tok(CharType(s[i]), <<s[i]>>)>> \o Lex(s, i + 1)

\* TokenList.token_next(idx): the next token that is not whitespace, 0 for none
token_next(tl, i) ==
    LET later == {j \in (i + 1)..Len(tl) : ~is_whitespace(tl[j])}
    IN  IF later = {} THEN 0 ELSE CHOOSE j \in later : \A k \in later : j <= k

RECURSIVE MatchClose(_, _, _)
\* the index of the ")" that closes the "(" before position i, 0 for none
MatchClose(tl, i, depth) ==
    IF i > Len(tl) THEN 0
    ELSE IF tl[i].v = <<"(">> THEN MatchClose(tl, i + 1, depth + 1)
    ELSE IF tl[i].v = <<")">>
         THEN IF depth = 0 THEN i ELSE MatchClose(tl, i + 1, depth - 1)
    ELSE MatchClose(tl, i + 1, depth)

RECURSIVE group_parenthesis(_)
group_parenthesis(tl) ==
    IF tl = <<>> THEN <<>>
    ELSE IF tl[1].v = <<"(">> /\ MatchClose(tl, 2, 0) > 0
         THEN LET c == MatchClose(tl, 2, 0)
              IN  <<Grp("Parenthesis",
                        <<tl[1]>> \o group_parenthesis(SubSeq(tl, 2, c - 1)) \o <<tl[c]>>)>>
                  \o group_parenthesis(SubSeq(tl, c + 1, Len(tl)))
         ELSE <<tl[1]>> \o group_parenthesis(Tail(tl))

RECURSIVE FunctionScan(_, _)
\* a Name followed by a Parenthesis becomes a Function
FunctionScan(tl, i) ==
    IF i > Len(tl) THEN tl
    ELSE LET n == token_next(tl, i)
         IN  IF tl[i].tt = "Name" /\ n > 0 /\ tl[n].tt = "Parenthesis"
             THEN FunctionScan(SubSeq(tl, 1, i - 1) \o <<Grp("Function", SubSeq(tl, i, n))>>
                               \o SubSeq(tl, n + 1, Len(tl)), i + 1)
             ELSE FunctionScan(tl, i + 1)

RECURSIVE group_functions(_)
group_functions(tl) ==
    FunctionScan(AsTuple([i \in 1..Len(tl) |->
                     IF is_group(tl[i]) THEN [tl[i] EXCEPT !.kids = group_functions(@)]
                     ELSE tl[i]]), 1)

RECURSIVE group_identifier(_)
\* every Name becomes an Identifier of its own
group_identifier(tl) ==
    AsTuple([i \in 1..Len(tl) |->
        IF tl[i].tt = "Name" THEN Grp("Identifier", <<tl[i]>>)
        ELSE IF is_group(tl[i]) THEN [tl[i] EXCEPT !.kids = group_identifier(@)]
        ELSE tl[i]])

\* The three passes built on sqlparse's _group: what they match, what may stand
\* before and after the match, the class they build, and whether a group of that
\* class standing first is extended rather than wrapped.
GroupMatch(kind, t) ==
    CASE kind = "operator" -> t.tt \in {"Operator", "Wildcard"}
      [] kind = "as" -> is_keyword(t) /\ str_upper(t.v) = <<"A","S">>
      [] kind = "list" -> t.tt = "Punctuation" /\ t.v = <<",">>

GroupValidPrev(kind, t) ==
    CASE kind = "operator" -> t.tt \in {"Parenthesis", "Function", "Identifier", "Operation"}
      [] kind = "as" -> ~is_keyword(t)
      [] kind = "list" -> t.tt \in {"Function", "Identifier", "IdentifierList", "Operation",
                                    "Name", "Keyword", "DML", "Wildcard"}

GroupValidNext(kind, t) ==
    CASE kind = "operator" -> t.tt \in {"Parenthesis", "Function", "Identifier", "Operation"}
      [] kind = "as" -> t.tt # "DML"
      [] kind = "list" -> t.tt \in {"Function", "Identifier", "IdentifierList", "Operation",
                                    "Name", "Keyword", "DML", "Wildcard"}

GroupClass(kind) ==
    CASE kind = "operator" -> "Operation"
      [] kind = "as" -> "Identifier"
      [] kind = "list" -> "IdentifierList"

GroupExtend(kind) == kind \in {"as", "list"}

\* TokenList.group_tokens(cls, start, end, extend)
group_tokens(kind, tl, from, to) ==
    LET grp == IF GroupExtend(kind) /\ tl[from].tt = GroupClass(kind)
               THEN Grp(GroupClass(kind), tl[from].kids \o SubSeq(tl, from + 1, to))
               ELSE Grp(GroupClass(kind), SubSeq(tl, from, to))
    IN  SubSeq(tl, 1, from - 1) \o <<grp>> \o SubSeq(tl, to + 1, Len(tl))

RECURSIVE GroupScan(_, _, _, _, _)
\* _group's loop: i the token looked at, pidx and prev the last token that was
\* not whitespace (after a grouping: the new group's place, and the token the
\* loop saw last, which is the group's last token)
GroupScan(kind, tl, i, pidx, prev) ==
    IF i > Len(tl) THEN tl
    ELSE IF is_whitespace(tl[i]) THEN GroupScan(kind, tl, i + 1, pidx, prev)
    ELSE LET n == token_next(tl, i)
         IN  IF /\ GroupMatch(kind, tl[i])
                /\ pidx > 0 /\ GroupValidPrev(kind, prev)
                /\ n > 0 /\ GroupValidNext(kind, tl[n])
             THEN GroupScan(kind, group_tokens(kind, tl, pidx, n), pidx + 1, pidx, tl[n])
             ELSE GroupScan(kind, tl, i + 1, i, tl[i])

RECURSIVE GroupPass(_, _)
GroupPass(kind, tl) ==
    GroupScan(kind,
              AsTuple([i \in 1..Len(tl) |->
                  IF is_group(tl[i]) /\ tl[i].tt # GroupClass(kind)
                  THEN [tl[i] EXCEPT !.kids = GroupPass(kind, @)]
                  ELSE tl[i]]),
              1, 0, NoTok)

\* grouping.group: the passes in sqlparse's order
group(tl) ==
    GroupPass("list",
      GroupPass("as",
        GroupPass("operator",
          group_identifier(group_functions(group_parenthesis(tl))))))

\* sqlparse.parse(sql): the tuple of statements; empty for the empty text.  The
\* texts modelled hold one statement.
sqlparse_parse(sql) ==
    IF sql = <<>> THEN <<>> ELSE <<Grp("Statement", group(Lex(sql, 1)))>>

----------------------------------------------------------------------------
(* The expression classifier. *)

keywords_calc == <<<<"s","u","m","(">>, <<"a","v","g","(">>, <<"m","i","n","(">>, <<"m","a","x","(">>, <<"c","o","u","n","t","(">>, <<"c","a","s","e"," ">>,
                   <<" ","w","h","e","n"," ">>, <<" ","t","h","e","n"," ">>, <<" ","e","l","s","e"," ">>, <<"d","i","s","t","i","n","c","t","(">>>>

is_calculation_expression(expr) ==
    \E k \in 1..Len(keywords_calc) : Contains(keywords_calc[k], str_lower(expr))

ClauseKeywords == {<<"F","R","O","M">>, <<"W","H","E","R","E">>, <<"G","R","O","U","P">>, <<"O","R","D","E","R">>, <<"H","A","V","I","N","G">>, <<"L","I","M","I","T">>}

RECURSIVE SelectTokens(_, _, _)
\* the first loop of parse_column_expression: str(token) of the statement's
\* tokens after SELECT and before the first clause keyword
SelectTokens(tokens, i, select_seen) ==
    IF i > Len(tokens) THEN <<>>
    ELSE LET token == tokens[i]
         IN  IF token.tt = "DML" /\ str_upper(token.v) = <<"S","E","L","E","C","T">>
             THEN SelectTokens(tokens, i + 1, TRUE)
             ELSE IF select_seen /\ is_keyword(token) /\ str_upper(token.v) \in ClauseKeywords
             THEN <<>>
             ELSE IF select_seen
             THEN <<token.v>> \o SelectTokens(tokens, i + 1, select_seen)
             ELSE SelectTokens(tokens, i + 1, select_seen)

\* f" as {col_name.lower()}"
AliasMarker(col) == <<" ","a","s"," ">> \o str_lower(col)

AliasTest_AnyMention(text, col) == Contains(str_lower(col), str_lower(text))

\* the test of line 332 on the text of one sub-token
AliasTest(text, col) == Contains(AliasMarker(col), str_lower(text))

\* the groups among the sub-tokens of the groups among the tokens, in the order
\* the two nested loops visit them
SubGroups(tokens) ==
    LET RECURSIVE walk(_)
        walk(i) == IF i > Len(tokens) THEN <<>>
                   ELSE IF is_group(tokens[i])
                        THEN SelectSeq(tokens[i].kids, is_group) \o walk(i + 1)
                        ELSE walk(i + 1)
    IN  walk(1)

\* line 333: the outcome for the first sub-token that passed the test, and line
\* 334 when none did
ClassifyHits(hits) ==
    IF hits = <<>> THEN <<None, <<>>>>
    ELSE IF is_calculation_expression(hits[1].v) THEN <<True, hits[1].v>>
    ELSE <<False, hits[1].v>>

\* lines 323-334: the projection text parsed again, and the two nested loops
ScanProjection(sub_parsed, col) ==
    IF sub_parsed = <<>> THEN <<None, <<>>>>
    ELSE ClassifyHits(SelectSeq(SubGroups(sub_parsed[1].kids),
                                LAMBDA t : AliasTest(t.v, col)))

\* lines 306-322
ScanStatement(parsed, col) ==
    IF parsed = <<>> THEN <<None, <<>>>>
    ELSE ScanProjection(sqlparse_parse(Join(SelectTokens(parsed[1].kids, 1, FALSE))), col)

\* <<found_calc, snippet>>
parse_column_expression(view_sql, col) == ScanStatement(sqlparse_parse(view_sql), col)

----------------------------------------------------------------------------
(* The texts the classifier is run on. *)

N_total == <<"t","o","t","a","l">>
N_id == <<"i","d">>
N_missing_col == <<"m","i","s","s","i","n","g","_","c","o","l">>

I_id == <<"i","d">>
I_a_as_total == <<"a"," ","A","S"," ","t","o","t","a","l">>
I_ab_as_total == <<"a","+","b"," ","A","S"," ","t","o","t","a","l">>
I_sum_as_total == <<"S","U","M","(","x",")"," ","A","S"," ","t","o","t","a","l">>
I_b_as_Total == <<"b"," ","a","s"," ","T","o","t","a","l">>
I_x_as_id == <<"x"," ","A","S"," ","i","d">>

ItemTexts == {I_id, I_a_as_total, I_ab_as_total, I_sum_as_total, I_b_as_Total, I_x_as_id}

RECURSIVE JoinComma(_)
JoinComma(items) ==
    IF Len(items) = 1 THEN items[1] ELSE items[1] \o <<","," ">> \o JoinComma(Tail(items))

BuildSql(items, tail) == <<"S","E","L","E","C","T"," ">> \o JoinComma(items) \o tail

SqlTails == {<<>>, <<" ","F","R","O","M"," ","t">>}

ItemLists == UNION {[1..n -> ItemTexts] : n \in 1..MaxItems}

\* the view of the end-to-end scenario
Q_orders_calc == <<"S","E","L","E","C","T"," ","i","d",","," ","S","U","M","(","a","m","o","u","n","t",")"," ","A","S"," ","t","o","t","a","l"," ","F","R","O","M"," ","o","r","d","e","r","s"," ","G","R","O","U","P"," ","B","Y"," ","i","d">>
\* the same as information_schema.views prints it, with line breaks
Q_orders_calc_pg == <<" ","S","E","L","E","C","T"," ","i","d",",","\n"," "," "," "," ","s","u","m","(","a","m","o","u","n","t",")"," ","A","S"," ","t","o","t","a","l","\n"," "," "," ","F","R","O","M"," ","o","r","d","e","r","s","\n"," "," ","G","R","O","U","P"," ","B","Y"," ","i","d",";">>
\* texts that are no SELECT
Q_empty == <<>>
Q_blank == <<" ">>
Q_no_select == <<"F","R","O","M"," ","t"," ","W","H","E","R","E">>
Q_garbage == <<")","x","("," ","a","s"," ","t","o","t","a","l"," ",",",","," ","W","H","E","R","E">>

SpecialSql == {Q_orders_calc, Q_orders_calc_pg, Q_empty, Q_blank, Q_no_select, Q_garbage}

GeneratedSql == {BuildSql(items, tail) : items \in ItemLists, tail \in SqlTails}

ClassifyColumns == {N_total, N_id, N_missing_col}

----------------------------------------------------------------------------
(* Object names, column names and the SQL texts of a trace are strings;     *)
(* Chars gives the characters of each, and Str the string of a sequence of  *)
(* characters.                                                              *)

CharsTable ==
    "" :> <<>> @@ "orders" :> <<"o","r","d","e","r","s">> @@ "v_orders_calc" :> <<"v","_","o","r","d","e","r","s","_","c","a","l","c">> @@ "V_Orders_Calc" :> <<"V","_","O","r","d","e","r","s","_","C","a","l","c">>
    @@ "total" :> <<"t","o","t","a","l">> @@ "id" :> <<"i","d">> @@ " orders" :> <<" ","o","r","d","e","r","s">> @@ "NaN" :> <<"N","a","N">> @@ "amount" :> <<"a","m","o","u","n","t">>
    @@ "SELECT id, SUM(amount) AS total FROM orders GROUP BY id" :> <<"S","E","L","E","C","T"," ","i","d",","," ","S","U","M","(","a","m","o","u","n","t",")"," ","A","S"," ","t","o","t","a","l"," ","F","R","O","M"," ","o","r","d","e","r","s"," ","G","R","O","U","P"," ","B","Y"," ","i","d">>
    @@ "SELECT id, amount AS total FROM orders" :> <<"S","E","L","E","C","T"," ","i","d",","," ","a","m","o","u","n","t"," ","A","S"," ","t","o","t","a","l"," ","F","R","O","M"," ","o","r","d","e","r","s">>
    @@ "SELECT amount AS total FROM orders" :> <<"S","E","L","E","C","T"," ","a","m","o","u","n","t"," ","A","S"," ","t","o","t","a","l"," ","F","R","O","M"," ","o","r","d","e","r","s">>

Chars(s) == CharsTable[s]
Str(cs) == CHOOSE s \in DOMAIN CharsTable : CharsTable[s] = cs

----------------------------------------------------------------------------
(* The lines of a chain.  A line is kept as its f-string and the values     *)
(* formatted into it, [t, a]; Render gives the text of the line, and every  *)
(* test the code makes on a line is made on that text.  The values are      *)
(* names, but for the snippet of a Calculation line and the base name of a  *)
(* condensed line, which are the characters the code cut out of a text.     *)

Line(t, a) == [t |-> t, a |-> a]

L_base_nodef(view) == Line("base_nodef", <<view>>)
L_nf_leaf(col, view) == Line("nf_leaf", <<col, view>>)
L_nf_parent(col, view, prt) == Line("nf_parent", <<col, view, prt>>)
L_nf_fallback(col, view) == Line("nf_fallback", <<col, view>>)
L_calc(view, snippet) == Line("calc", <<view, snippet>>)
L_pass_leaf(col, view) == Line("pass_leaf", <<col, view>>)
L_base_noparent(view) == Line("base_noparent", <<view>>)
L_pass_note(col, view) == Line("pass_note", <<col, view>>)
L_parent_note(prt) == Line("parent_note", <<prt>>)
L_same_as(col, base_name) == Line("same_as", <<col, base_name>>)

Render(l) ==
    CASE l.t = "base_nodef" ->
           <<"*"," ","R","e","a","c","h","e","d"," ","b","a","s","e"," ","o","b","j","e","c","t"," ","'">> \o Chars(l.a[1]) \o <<"'"," ","(","n","o"," ","S","Q","L"," ","d","e","f","i","n","i","t","i","o","n",")",".">>
      [] l.t = "nf_leaf" ->
           <<"*"," ","'">> \o Chars(l.a[1]) \o <<"'"," ","n","o","t"," ","f","o","u","n","d"," ","i","n"," ","'">> \o Chars(l.a[2])
           \o <<"'"," ","=",">"," ","l","i","k","e","l","y"," ","a"," ","b","a","s","e"," ","o","b","j","e","c","t",".">>
      [] l.t = "nf_parent" ->
           <<"'">> \o Chars(l.a[1]) \o <<"'"," ","n","o","t"," ","e","x","p","l","i","c","i","t","l","y"," ","i","n"," ","'">> \o Chars(l.a[2])
           \o <<"'",","," ","c","h","e","c","k"," ","p","a","r","e","n","t"," ","'">> \o Chars(l.a[3]) \o <<"'",":">>
      [] l.t = "nf_fallback" ->
           <<"*"," ","'">> \o Chars(l.a[1]) \o <<"'"," ","n","o","t"," ","f","o","u","n","d"," ","i","n"," ","'">> \o Chars(l.a[2])
           \o <<"'"," ","a","n","d"," ","n","o"," ","p","a","r","e","n","t"," ","l","e","a","d","s"," ","t","o"," ","a"," ","c","a","l","c"," ","o","r"," ","t","a","b","l","e",".">>
      [] l.t = "calc" ->
           <<"*"," ","C","a","l","c","u","l","a","t","i","o","n"," ","i","n"," ","'">> \o Chars(l.a[1]) \o <<"'",":"," ">> \o l.a[2]
      [] l.t = "pass_leaf" ->
           <<"*"," ","C","o","l","u","m","n"," ","'">> \o Chars(l.a[1]) \o <<"'"," ","p","a","s","s","-","t","h","r","o","u","g","h"," ","i","n"," ","'">> \o Chars(l.a[2]) \o <<"'",".">>
      [] l.t = "base_noparent" ->
           <<"*"," ","R","e","a","c","h","e","d"," ","b","a","s","e"," ","o","b","j","e","c","t"," ","'">> \o Chars(l.a[1]) \o <<"'"," ","(","n","o"," ","p","a","r","e","n","t",")",".">>
      [] l.t = "pass_note" ->
           <<"C","o","l","u","m","n"," ","'">> \o Chars(l.a[1]) \o <<"'"," ","p","a","s","s","-","t","h","r","o","u","g","h"," ","i","n"," ","'">> \o Chars(l.a[2])
           \o <<"'"," ","=",">"," ","s","e","a","r","c","h"," ","i","t","s"," ","p","a","r","e","n","t","(","s",")">>
      [] l.t = "parent_note" ->
           <<"=",">"," ","p","a","r","e","n","t",":"," ","'">> \o Chars(l.a[1]) \o <<"'">>
      [] l.t = "same_as" ->
           <<"C","o","l","u","m","n"," ","'">> \o Chars(l.a[1]) \o <<"'"," ","=",">"," ","s","a","m","e"," ","a","s"," ","'">> \o l.a[2]
           \o <<"'"," ","(","n","o"," ","c","a","l","c","u","l","a","t","i","o","n",")">>

----------------------------------------------------------------------------
(* The chain condenser. *)

CalcMarker == <<"C","a","l","c","u","l","a","t","i","o","n"," ","i","n">>
BaseMarker == <<"R","e","a","c","h","e","d"," ","b","a","s","e"," ","o","b","j","e","c","t">>
BasePattern == <<"R","e","a","c","h","e","d"," ","b","a","s","e"," ","o","b","j","e","c","t"," ","'">>

\* re.search(r"Reached base object '([^']+)'", line): <<group(1)>> of the
\* leftmost match, <<>> for no match
re_search_base(line) ==
    LET QuoteAfter(q) == {e \in q..Len(line) : line[e] = "'"}
        NameEnd(q) == CHOOSE e \in QuoteAfter(q) : \A x \in QuoteAfter(q) : e <= x
        MatchAt(p) ==
            LET q == p + Len(BasePattern)
            IN  /\ SubSeq(line, p, q - 1) = BasePattern
                /\ QuoteAfter(q) # {}
                /\ NameEnd(q) > q
        starts == {p \in 1..(Len(line) - Len(BasePattern)) : MatchAt(p)}
    IN  IF starts = {} THEN <<>>
        ELSE LET p == CHOOSE x \in starts : \A y \in starts : x <= y
                 q == p + Len(BasePattern)
             IN  <<SubSeq(line, q, NameEnd(q) - 1)>>

\* the line `for line in reversed(chain_lines)` stops at: the last line that
\* holds the marker, 0 for none
BaseLine_First(chain_lines) ==
    LET hits == {i \in 1..Len(chain_lines) : Contains(BaseMarker, Render(chain_lines[i]))}
    IN  IF hits = {} THEN 0 ELSE CHOOSE i \in hits : \A j \in hits : i <= j

BaseLine(chain_lines) ==
    LET hits == {i \in 1..Len(chain_lines) : Contains(BaseMarker, Render(chain_lines[i]))}
    IN  IF hits = {} THEN 0 ELSE CHOOSE i \in hits : \A j \in hits : j <= i

HasCalculation_Never(chain_lines) == FALSE

\* any("Calculation in" in line for line in chain_lines)
HasCalculation(chain_lines) ==
    \E i \in 1..Len(chain_lines) : Contains(CalcMarker, Render(chain_lines[i]))

\* lines 429-433, m the outcome of re.search
CondenseMatch(chain_lines, col, m) ==
    IF m = <<>> THEN chain_lines ELSE <<L_same_as(col, m[1])>>

\* lines 427-433, base the index of base_obj_line, 0 for None
CondenseBase(chain_lines, col, base) ==
    IF base = 0 THEN chain_lines
    ELSE CondenseMatch(chain_lines, col, re_search_base(Render(chain_lines[base])))

condense_if_no_calc(chain_lines, col) ==
    IF HasCalculation(chain_lines) THEN chain_lines
    ELSE CondenseBase(chain_lines, col, BaseLine(chain_lines))

----------------------------------------------------------------------------
(* The parts of the state a specification does not use stay as they are here. *)

TraceIdle ==
    /\ rows = <<>> /\ graph = <<>> /\ obj_def_map = <<>> /\ col_name = "" /\ start_view = ""
    /\ visited = {} /\ stack = <<>> /\ ret = <<>> /\ chain_out = <<>>
    /\ condensed = <<>> /\ calls = <<>> /\ pc = "idle" /\ runs = <<>>

ClassifyIdle == c_sql = <<>> /\ c_col = <<>> /\ c_out = <<None, <<>>>> /\ c_pc = "idle"

CondenseIdle == k_chain = <<>> /\ k_col = "" /\ k_out = <<>> /\ k_pc = "idle"

GraphIdle ==
    /\ g_rows = <<>> /\ g_name = "" /\ g_graph = <<>> /\ g_parents = <<>>
    /\ g_children = <<>> /\ g_pc = "idle"

DiagramIdle ==
    /\ d_visited = {} /\ d_nodes = <<>> /\ d_edges = <<>> /\ d_stack = <<>> /\ d_pc = "idle"

ThreadsIdle == threads = <<>>

AsideIdle == GraphIdle /\ DiagramIdle /\ ThreadsIdle

----------------------------------------------------------------------------
(* The dependency graph and the tracer. *)

N_nan == <<"n","a","n">>

GraphAppend_Overwrite(g, parent, child) ==
    IF \E i \in 1..Len(g) : g[i][1] = parent
    THEN LET i == CHOOSE x \in 1..Len(g) : g[x][1] = parent
         IN  [g EXCEPT ![i] = <<parent, <<child>>>>]
    ELSE Append(g, <<parent, <<child>>>>)

\* graph[parent].append(child) on the dictionary kept as its items in insertion
\* order, <<key, list>>
GraphAppend(g, parent, child) ==
    IF \E i \in 1..Len(g) : g[i][1] = parent
    THEN LET i == CHOOSE x \in 1..Len(g) : g[x][1] = parent
         IN  [g EXCEPT ![i] = <<parent, Append(g[i][2], child)>>]
    ELSE Append(g, <<parent, <<child>>>>)

RECURSIVE GraphFold(_, _)
GraphFold(g, rs) ==
    IF rs = <<>> THEN g
    ELSE LET parent == str_strip(Chars(rs[1][1]))
             child == str_strip(Chars(rs[1][2]))
         IN  IF /\ parent # <<>> /\ child # <<>>
                /\ str_lower(parent) # N_nan /\ str_lower(child) # N_nan
             THEN GraphFold(GraphAppend(g, Str(parent), Str(child)), Tail(rs))
             ELSE GraphFold(g, Tail(rs))

build_simple_graph_ChildKeyed(rs) ==
    GraphFold(<<>>, AsTuple([i \in 1..Len(rs) |-> <<rs[i][2], rs[i][1]>>]))

\* lines 353-364
build_simple_graph(rs) == GraphFold(<<>>, rs)

\* [p for p, children in graph.items() if start_view in children]
Parents(g, view) ==
    LET hit == SelectSeq(g, LAMBDA e : InSeq(view, e[2]))
    IN  AsTuple([i \in 1..Len(hit) |-> hit[i][1]])

\* obj_def_map.get(start_view, "")
DefGet(defs, view) == IF view \in DOMAIN defs THEN defs[view] ELSE ""

\* the views of the traces
V_orders_calc == "SELECT id, SUM(amount) AS total FROM orders GROUP BY id"
V_pass == "SELECT id, amount AS total FROM orders"
V_single == "SELECT amount AS total FROM orders"
TraceSql == {"", V_orders_calc, V_pass, V_single}
TraceColumns == {"total", "id"}
Objects == {"orders", "v_orders_calc", "V_Orders_Calc"}

\* parse_column_expression on the texts of the traces, computed once
ParseCache ==
    {<<s, c, parse_column_expression(Chars(s), Chars(c))>> :
        s \in TraceSql, c \in TraceColumns}

\* parse_column_expression(view_sql, col_name) at line 382
classify(view_sql, col) ==
    IF \E e \in ParseCache : e[1] = view_sql /\ e[2] = col
    THEN (CHOOSE e \in ParseCache : e[1] = view_sql /\ e[2] = col)[3]
    ELSE parse_column_expression(Chars(view_sql), Chars(col))

VisitKey_ExactCase(view, col) == <<Chars(view), Chars(col)>>

\* (start_view.lower(), col_name.lower())
VisitKey(view, col) == <<str_lower(Chars(view)), str_lower(Chars(col))>>

IsVisited_Never(view, col, seen) == FALSE

\* line 374: key in visited
IsVisited(view, col, seen) == VisitKey(view, col) \in seen

Marked_Forgotten(view, col, seen) == seen

\* line 376: visited.add(key)
Marked(view, col, seen) == seen \cup {VisitKey(view, col)}

\* A call in progress: the object it traces, where it stands ("enter": before
\* line 371; "notfound", "pass": in the loop over the parents of that branch),
\* its list parents, the index i of the parent the loop looks at next, and its
\* chain; col is its argument col_name.  subs records what each traced parent
\* returned, in order.
NewFrame(view, col) ==
    [view |-> view, col |-> col, branch |-> "enter", parents |-> <<>>, i |-> 1,
     chain |-> <<>>, subs |-> <<>>]

PassedColumn_Upstream(frame) == IF frame.branch = "pass" THEN "amount" ELSE frame.col

\* lines 390 and 408: the column name the call of frame hands to the call on a
\* parent, its own col_name
PassedColumn(frame) == frame.col

Returns(chain) == [kind |-> "return", chain |-> chain]
Loops(branch, parents, chain) ==
    [kind |-> "loop", branch |-> branch, parents |-> parents, chain |-> chain]

TraceClassified_CalcTraced(pe, parents, view, col) ==
    IF pe[1] = None
    THEN IF parents = <<>> THEN Returns(<<L_nf_leaf(col, view)>>)
         ELSE Loops("notfound", parents, <<>>)
    ELSE IF parents = <<>>
         THEN Returns(<<L_pass_leaf(col, view), L_base_noparent(view)>>)
         ELSE Loops("pass", parents, <<L_calc(view, str_strip(pe[2]))>>)

\* lines 383-406: the branch taken on the classifier's outcome pe
TraceClassified(pe, parents, view, col) ==
    IF pe[1] = None
    THEN IF parents = <<>> THEN Returns(<<L_nf_leaf(col, view)>>)
         ELSE Loops("notfound", parents, <<>>)
    ELSE IF pe[1] = True
    THEN Returns(<<L_calc(view, str_strip(pe[2]))>>)
    ELSE IF parents = <<>>
         THEN Returns(<<L_pass_leaf(col, view), L_base_noparent(view)>>)
         ELSE Loops("pass", parents, <<L_pass_note(col, view)>>)

TraceBody_NoBaseTest(view, col, defs, g) ==
    TraceClassified(classify(DefGet(defs, view), col), Parents(g, view), view, col)

\* lines 378-406 of a call on an object not yet visited: what it returns, or the
\* loop it enters
TraceBody(view, col, defs, g) ==
    IF Chars(DefGet(defs, view)) = <<>> THEN Returns(<<L_base_nodef(view)>>)
    ELSE TraceClassified(classify(DefGet(defs, view), col), Parents(g, view), view, col)

Adopt_NoNote(frame, col, prt, sub_chain) == frame.chain \o sub_chain

\* lines 391-393 and 409-411: the chain once parent prt returned sub_chain
Adopt(frame, col, prt, sub_chain) ==
    IF frame.branch = "notfound"
    THEN frame.chain \o <<L_nf_parent(col, frame.view, prt)>> \o sub_chain
    ELSE frame.chain \o <<L_parent_note(prt)>> \o sub_chain

LoopEndValue_NoFallback(frame, col) == frame.chain

\* lines 395 and 413: what the call returns when the loop ran out of parents
LoopEndValue(frame, col) ==
    IF frame.branch = "notfound"
    THEN IF frame.chain # <<>> THEN frame.chain
         ELSE <<L_nf_fallback(col, frame.view)>>
    ELSE frame.chain

Top == stack[Len(stack)]
Pop == SubSeq(stack, 1, Len(stack) - 1)

\* what a returning call hands over: its chain; frame and expanded record the
\* call it comes from and whether that call got past the visited test
Handed(frame, chain, expanded) ==
    <<[val |-> chain, frame |-> frame, expanded |-> expanded]>>

RowLists == UNION {[1..n -> Objects \X Objects] : n \in 0..MaxEdges}
DefMaps == UNION {[D -> TraceSql] : D \in SUBSET Objects}

\* the end-to-end scenario: table orders without a definition, the view
\* v_orders_calc over it, and the one edge orders -> v_orders_calc
E2E ==
    /\ rows = <<<<"orders", "v_orders_calc">>>>
    /\ DefGet(obj_def_map, "orders") = ""
    /\ DefGet(obj_def_map, "v_orders_calc") = V_orders_calc

\* generate_calculation_chains_for_view built the map and the graph (lines
\* 457-458) and is about to call trace_column without a visited set (line 461):
\* column total over every edge list and map, and both columns in the
\* end-to-end scenario
InitTrace ==
    /\ ClassifyIdle /\ CondenseIdle /\ AsideIdle
    /\ rows \in RowLists
    /\ graph = build_simple_graph(rows)
    /\ obj_def_map \in DefMaps
    /\ col_name \in TraceColumns
    /\ col_name = "total" \/ E2E
    /\ start_view \in Objects
    /\ visited = {}
    /\ stack = <<>>
    /\ ret = <<>>
    /\ chain_out = <<>>
    /\ condensed = <<>>
    /\ calls = <<>>
    /\ pc = "start"
    /\ runs = <<>>

\* a call returns chain to the calls below it; the top-level call returns it to
\* generate_calculation_chains_for_view (line 461)
Return(below, frame, chain, expanded) ==
    /\ stack' = below
    /\ ret' = Handed(frame, chain, expanded)
    /\ IF below = <<>>
       THEN chain_out' = chain /\ pc' = "done"
       ELSE UNCHANGED chain_out /\ pc' = "running"

\* the call on view returns out's chain, or stands at the head of out's loop
EnterBody(below, view, col, out) ==
    IF out.kind = "return"
    THEN Return(below, NewFrame(view, col), out.chain, TRUE)
    ELSE /\ stack' = Append(below, [NewFrame(view, col) EXCEPT !.branch = out.branch,
                                                         !.parents = out.parents,
                                                         !.chain = out.chain])
         /\ ret' = <<>>
         /\ pc' = "running"
         /\ UNCHANGED chain_out

\* lines 371-406 of a call on view: the visited test, the mark, and the body up
\* to the loop over the parents
RunCall(below, view, col) ==
    IF IsVisited(view, col, visited)
    THEN /\ UNCHANGED visited
         /\ Return(below, NewFrame(view, col), <<>>, FALSE)
    ELSE /\ visited' = Marked(view, col, visited)
         /\ EnterBody(below, view, col, TraceBody(view, col, obj_def_map, graph))

\* line 461: the top-level call, visited = None
Enter ==
    /\ pc = "start"
    /\ calls' = <<<<1, start_view, col_name>>>>
    /\ RunCall(<<>>, start_view, col_name)
    /\ UNCHANGED <<rows, graph, obj_def_map, col_name, start_view, condensed>>
    /\ UNCHANGED runs
    /\ UNCHANGED classify_vars /\ UNCHANGED condense_vars /\ UNCHANGED aside_vars

\* lines 389-390 and 407-408: the loop calls trace_column on its next parent,
\* handing it the visited set
Call ==
    /\ pc = "running" /\ stack # <<>> /\ ret = <<>>
    /\ Top.i <= Len(Top.parents)
    /\ Len(stack) < RecursionLimit
    /\ calls' = Append(calls, <<Len(stack) + 1, Top.parents[Top.i], PassedColumn(Top)>>)
    /\ RunCall(stack, Top.parents[Top.i], PassedColumn(Top))
    /\ UNCHANGED <<rows, graph, obj_def_map, col_name, start_view, condensed>>
    /\ UNCHANGED runs
    /\ UNCHANGED classify_vars /\ UNCHANGED condense_vars /\ UNCHANGED aside_vars

\* the frame once it has seen what parent prt returned
Seen(frame, prt, sub_chain) ==
    [frame EXCEPT !.subs = Append(@, [prt |-> prt, val |-> sub_chain])]

Resume_NoBreak ==
    /\ pc = "running" /\ stack # <<>> /\ ret # <<>>
    /\ ret' = <<>>
    /\ stack' = [stack EXCEPT ![Len(stack)] =
                    [Seen(Top, Top.parents[Top.i], ret[1].val) EXCEPT
                        !.i = @ + 1,
                        !.chain = IF ret[1].val # <<>>
                                  THEN Adopt(Top, Top.col, Top.parents[Top.i], ret[1].val)
                                  ELSE @]]
    /\ UNCHANGED <<chain_out, pc>>
    /\ UNCHANGED <<rows, graph, obj_def_map, col_name, start_view, visited, condensed,
                   calls>>
    /\ UNCHANGED runs
    /\ UNCHANGED classify_vars /\ UNCHANGED condense_vars /\ UNCHANGED aside_vars

\* lines 391-394 and 409-412: the parent's call returned; a chain that is not
\* empty is adopted and ends the loop and the call, an empty one moves the loop on
Resume ==
    /\ pc = "running" /\ stack # <<>> /\ ret # <<>>
    /\ IF ret[1].val # <<>>
       THEN Return(Pop, Seen(Top, Top.parents[Top.i], ret[1].val),
                   Adopt(Top, Top.col, Top.parents[Top.i], ret[1].val), TRUE)
       ELSE /\ ret' = <<>>
            /\ stack' = [stack EXCEPT ![Len(stack)] =
                            [Seen(Top, Top.parents[Top.i], ret[1].val) EXCEPT !.i = @ + 1]]
            /\ UNCHANGED <<chain_out, pc>>
    /\ UNCHANGED <<rows, graph, obj_def_map, col_name, start_view, visited, condensed,
                   calls>>
    /\ UNCHANGED runs
    /\ UNCHANGED classify_vars /\ UNCHANGED condense_vars /\ UNCHANGED aside_vars

\* lines 395 and 413: no parent is left
LoopEnd ==
    /\ pc = "running" /\ stack # <<>> /\ ret = <<>>
    /\ Top.i > Len(Top.parents)
    /\ Return(Pop, Top, LoopEndValue(Top, Top.col), TRUE)
    /\ UNCHANGED <<rows, graph, obj_def_map, col_name, start_view, visited, condensed,
                   calls>>
    /\ UNCHANGED runs
    /\ UNCHANGED classify_vars /\ UNCHANGED condense_vars /\ UNCHANGED aside_vars

\* line 444: render_calculation_chains_as_html condenses the chain
Condense ==
    /\ pc = "done"
    /\ condensed' = condense_if_no_calc(chain_out, col_name)
    /\ pc' = "rendered"
    /\ UNCHANGED <<rows, graph, obj_def_map, col_name, start_view, visited, stack, ret,
                   chain_out, calls>>
    /\ UNCHANGED runs
    /\ UNCHANGED classify_vars /\ UNCHANGED condense_vars /\ UNCHANGED aside_vars

Next == Enter \/ Call \/ Resume \/ LoopEnd \/ Condense

Spec == InitTrace /\ [][Next]_vars

\* the interpreter runs a call in progress on: the loop makes its next call, a
\* call that returned is resumed, a loop out of parents returns
FairSpec == Spec /\ WF_vars(Call) /\ WF_vars(Resume) /\ WF_vars(LoopEnd)

----------------------------------------------------------------------------
(* trace_column as a function: the chain a call returns and the visited set *)
(* it leaves, when nothing else runs between its steps.                     *)

Solo(chain, seen) == [chain |-> chain, seen |-> seen]

\* the frame of a call that enters the loop out
LoopFrame(view, col, out) ==
    [NewFrame(view, col) EXCEPT !.branch = out.branch, !.parents = out.parents,
                                !.chain = out.chain]

RECURSIVE TraceSolo(_, _, _, _, _), LoopSolo(_, _, _, _), BodySolo(_, _, _, _, _, _),
          AdoptSolo(_, _, _, _, _)

\* lines 371-376: the visited test and the mark
TraceSolo(view, col, defs, g, seen) ==
    IF IsVisited(view, col, seen) THEN Solo(<<>>, seen)
    ELSE BodySolo(view, col, defs, g, Marked(view, col, seen), TraceBody(view, col, defs, g))

\* lines 378-406: the call returns at once or runs its loop
BodySolo(view, col, defs, g, seen, out) ==
    IF out.kind = "return" THEN Solo(out.chain, seen)
    ELSE LoopSolo(LoopFrame(view, col, out), defs, g, seen)

\* lines 389-395 and 407-413: the loop over the parents from frame.i on
LoopSolo(frame, defs, g, seen) ==
    IF frame.i > Len(frame.parents) THEN Solo(LoopEndValue(frame, frame.col), seen)
    ELSE AdoptSolo(frame, defs, g, seen,
                   TraceSolo(frame.parents[frame.i], PassedColumn(frame), defs, g, seen))

\* lines 391-394 and 409-412: sub is what the call on the parent returned
AdoptSolo(frame, defs, g, seen, sub) ==
    IF sub.chain # <<>>
    THEN Solo(Adopt(frame, frame.col, frame.parents[frame.i], sub.chain), sub.seen)
    ELSE LoopSolo([frame EXCEPT !.i = @ + 1], defs, g, sub.seen)

\* trace_column(col, view, defs, g) with visited left to its default
trace_column(col, view, defs, g) == TraceSolo(view, col, defs, g, {}).chain

\* definition maps that give every object the same text: the column not found
\* anywhere, passed through everywhere, calculated everywhere
SoloDefs == {[o \in Objects |-> s] : s \in {V_single, V_pass, V_orders_calc}}
----------------------------------------------------------------------------
(* The graph dictionary on its own, and the diagram of a view's sources.    *)
(* main draws the diagram of a view that has sources (lines 607-610), then  *)
(* writes its detail page, which builds the dictionary (lines 616, 458).    *)

\* the names of the rows: the objects, a name with a blank before it, and the
\* text of a missing value
GraphNames == Objects \cup {" orders", "NaN"}
GraphRowLists == UNION {[1..n -> GraphNames \X GraphNames] : n \in 0..MaxEdges}

\* the list the dictionary holds for name, none for a name that is no key
Children(g, name) ==
    IF \E i \in 1..Len(g) : g[i][1] = name
    THEN (CHOOSE e \in {g[i] : i \in 1..Len(g)} : e[1] = name)[2]
    ELSE <<>>

\* Series.unique(): the values in order of first appearance
RECURSIVE unique(_)
unique(s) ==
    IF s = <<>> THEN <<>>
    ELSE LET front == unique(SubSeq(s, 1, Len(s) - 1))
         IN  IF InSeq(s[Len(s)], front) THEN front ELSE Append(front, s[Len(s)])

deps_AllRows(df, v) ==
    LET hit == SelectSeq(df, LAMBDA r : r[2] = v)
    IN  AsTuple([i \in 1..Len(hit) |-> hit[i][1]])

\* line 484: the sources of the rows whose dependent is v, each once
deps(df, v) ==
    LET hit == SelectSeq(df, LAMBDA r : r[2] = v)
    IN  unique(AsTuple([i \in 1..Len(hit) |-> hit[i][1]]))

InitGraph ==
    /\ TraceIdle /\ ClassifyIdle /\ CondenseIdle /\ ThreadsIdle
    /\ g_rows \in GraphRowLists
    /\ g_name \in Objects
    /\ g_graph = <<>> /\ g_parents = <<>> /\ g_children = <<>>
    /\ g_pc = "ready"
    /\ d_visited = {} /\ d_nodes = <<>> /\ d_edges = <<>> /\ d_stack = <<>>
    /\ d_pc = "ready"

\* lines 475-482 of recurse(v), called with the calls below standing in their loop
recurse(below, v) ==
    IF v \in d_visited
    THEN /\ d_stack' = below
         /\ UNCHANGED <<d_visited, d_nodes>>
    ELSE /\ d_visited' = d_visited \cup {v}
         /\ d_nodes' = Append(d_nodes, v)
         /\ d_stack' = Append(below, [v |-> v, deps |-> deps(g_rows, v), i |-> 1])

\* lines 604, 607: a view with no source gets no diagram
DiagramSkip ==
    /\ d_pc = "ready"
    /\ ~\E i \in 1..Len(g_rows) : g_rows[i][2] = g_name
    /\ d_pc' = "skipped"
    /\ UNCHANGED <<d_visited, d_nodes, d_edges, d_stack>>
    /\ UNCHANGED graph_vars /\ UNCHANGED threads
    /\ UNCHANGED trace_vars /\ UNCHANGED classify_vars /\ UNCHANGED condense_vars

\* lines 608, 488: build_dependency_graph calls recurse(view_name)
DiagramEnter ==
    /\ d_pc = "ready"
    /\ \E i \in 1..Len(g_rows) : g_rows[i][2] = g_name
    /\ recurse(<<>>, g_name)
    /\ d_pc' = "drawing"
    /\ UNCHANGED d_edges
    /\ UNCHANGED graph_vars /\ UNCHANGED threads
    /\ UNCHANGED trace_vars /\ UNCHANGED classify_vars /\ UNCHANGED condense_vars

DTop == d_stack[Len(d_stack)]

\* lines 485-487: the loop draws the edge to its next dep and calls recurse on it
DiagramEdge ==
    /\ d_pc = "drawing" /\ d_stack # <<>>
    /\ DTop.i <= Len(DTop.deps)
    /\ d_edges' = Append(d_edges, <<DTop.v, DTop.deps[DTop.i]>>)
    /\ recurse([d_stack EXCEPT ![Len(d_stack)].i = @ + 1], DTop.deps[DTop.i])
    /\ UNCHANGED d_pc
    /\ UNCHANGED graph_vars /\ UNCHANGED threads
    /\ UNCHANGED trace_vars /\ UNCHANGED classify_vars /\ UNCHANGED condense_vars

\* the loop of a call of recurse ran out of deps: the call returns, the first
\* one to build_dependency_graph (lines 488-489)
DiagramReturn ==
    /\ d_pc = "drawing" /\ d_stack # <<>>
    /\ DTop.i > Len(DTop.deps)
    /\ d_stack' = SubSeq(d_stack, 1, Len(d_stack) - 1)
    /\ d_pc' = IF Len(d_stack) = 1 THEN "drawn" ELSE "drawing"
    /\ UNCHANGED <<d_visited, d_nodes, d_edges>>
    /\ UNCHANGED graph_vars /\ UNCHANGED threads
    /\ UNCHANGED trace_vars /\ UNCHANGED classify_vars /\ UNCHANGED condense_vars

\* line 458, and the lookups of line 385 for g_name
BuildGraph ==
    /\ d_pc \in {"drawn", "skipped"}
    /\ g_pc = "ready"
    /\ g_graph' = build_simple_graph(g_rows)
    /\ g_parents' = Parents(build_simple_graph(g_rows), g_name)
    /\ g_children' = Children(build_simple_graph(g_rows), g_name)
    /\ g_pc' = "built"
    /\ UNCHANGED <<g_rows, g_name>>
    /\ UNCHANGED diagram_vars /\ UNCHANGED threads
    /\ UNCHANGED trace_vars /\ UNCHANGED classify_vars /\ UNCHANGED condense_vars

NextGraph == DiagramSkip \/ DiagramEnter \/ DiagramEdge \/ DiagramReturn \/ BuildGraph

SpecGraph == InitGraph /\ [][NextGraph]_vars

----------------------------------------------------------------------------
(* Top-level calls made one after the other on the same column, object, map *)
(* and graph, none of them handed a visited set.                            *)

FreshVisited_Shared(seen) == seen

\* lines 367, 371-372: visited defaults to None, and a call that gets None
\* makes a set of its own; seen is the set the call before left behind
FreshVisited(seen) == {}

InitTwice == InitTrace /\ Len(rows) < MaxEdges

\* line 461 once more: the chain of the call that returned is kept, and the
\* same call is made again
Again ==
    /\ pc = "done"
    /\ Len(runs) < MaxRuns
    /\ runs' = Append(runs, chain_out)
    /\ visited' = FreshVisited(visited)
    /\ stack' = <<>> /\ ret' = <<>> /\ chain_out' = <<>> /\ calls' = <<>>
    /\ pc' = "start"
    /\ UNCHANGED <<rows, graph, obj_def_map, col_name, start_view, condensed>>
    /\ UNCHANGED classify_vars /\ UNCHANGED condense_vars /\ UNCHANGED aside_vars

NextTwice == Enter \/ Call \/ Resume \/ LoopEnd \/ Again

SpecTwice == InitTwice /\ [][NextTwice]_vars

----------------------------------------------------------------------------
(* Several top-level calls of trace_column at once, one per thread, over    *)
(* one map and one graph; the steps of the calls interleave freely.  Each   *)
(* thread holds the locals of its call chain: its visited set, the calls    *)
(* in their loop, the value just returned, and the chain of its top call.   *)

\* edge lists of the threads' graph: one edge, a path, a cycle of two objects
\* whose names differ only in case, and two sources of one view
ConcurrentRows ==
    { <<<<"orders", "v_orders_calc">>>>,
      <<<<"orders", "v_orders_calc">>, <<"v_orders_calc", "V_Orders_Calc">>>>,
      <<<<"v_orders_calc", "V_Orders_Calc">>, <<"V_Orders_Calc", "v_orders_calc">>>>,
      <<<<"orders", "v_orders_calc">>, <<"V_Orders_Calc", "v_orders_calc">>>> }

ConcurrentDefs == SoloDefs \cup {[o \in {"v_orders_calc"} |-> V_orders_calc]}

NewThread(view, col) ==
    [start |-> view, col |-> col, visited |-> {}, stack |-> <<>>, ret |-> <<>>,
     chain_out |-> <<>>, pc |-> "start"]

InitConcurrent ==
    /\ ClassifyIdle /\ CondenseIdle /\ GraphIdle /\ DiagramIdle
    /\ rows \in ConcurrentRows
    /\ graph = build_simple_graph(rows)
    /\ obj_def_map \in ConcurrentDefs
    /\ col_name = "" /\ start_view = ""
    /\ visited = {} /\ stack = <<>> /\ ret = <<>> /\ chain_out = <<>>
    /\ condensed = <<>> /\ calls = <<>> /\ pc = "idle" /\ runs = <<>>
    /\ threads \in [1..MaxThreads -> {NewThread(v, "total") : v \in Objects}]

OwnVisited_Shared(ts, i) == UNION {ts[j].visited : j \in 1..Len(ts)}

\* lines 371-372: the visited set of thread i's calls is the one its top-level
\* call made
OwnVisited(ts, i) == ts[i].visited

\* Return, for the calls of thread t
T_Return(t, below, frame, chain, expanded) ==
    [t EXCEPT !.stack = below,
              !.ret = Handed(frame, chain, expanded),
              !.chain_out = IF below = <<>> THEN chain ELSE @,
              !.pc = IF below = <<>> THEN "done" ELSE "running"]

\* EnterBody, for the calls of thread t
T_EnterBody(t, below, view, col, out) ==
    IF out.kind = "return"
    THEN T_Return(t, below, NewFrame(view, col), out.chain, TRUE)
    ELSE [t EXCEPT !.stack = Append(below, LoopFrame(view, col, out)),
                   !.ret = <<>>,
                   !.pc = "running"]

\* RunCall, for the calls of thread t; seen is the visited set the call tests
T_RunCall(t, seen, below, view, col) ==
    IF IsVisited(view, col, seen)
    THEN T_Return(t, below, NewFrame(view, col), <<>>, FALSE)
    ELSE T_EnterBody([t EXCEPT !.visited = Marked(view, col, @)], below, view, col,
                     TraceBody(view, col, obj_def_map, graph))

T_Top(t) == t.stack[Len(t.stack)]
T_Pop(t) == SubSeq(t.stack, 1, Len(t.stack) - 1)

\* a thread makes its top-level call (line 461)
ThreadEnter ==
    /\ \E i \in 1..Len(threads) :
          /\ threads[i].pc = "start"
          /\ calls' = Append(calls, <<i, threads[i].start, threads[i].col>>)
          /\ threads' = [threads EXCEPT ![i] =
                            T_RunCall(@, OwnVisited(threads, i), <<>>, @.start, @.col)]
    /\ UNCHANGED <<rows, graph, obj_def_map, col_name, start_view, visited, stack, ret,
                   chain_out, condensed, pc, runs>>
    /\ UNCHANGED classify_vars /\ UNCHANGED condense_vars
    /\ UNCHANGED graph_vars /\ UNCHANGED diagram_vars

\* a thread's loop calls trace_column on its next parent (lines 389-390, 407-408)
ThreadCall ==
    /\ \E i \in 1..Len(threads) :
          /\ threads[i].pc = "running" /\ threads[i].stack # <<>> /\ threads[i].ret = <<>>
          /\ T_Top(threads[i]).i <= Len(T_Top(threads[i]).parents)
          /\ Len(threads[i].stack) < RecursionLimit
          /\ calls' = Append(calls, <<i, T_Top(threads[i]).parents[T_Top(threads[i]).i],
                                     PassedColumn(T_Top(threads[i]))>>)
          /\ threads' = [threads EXCEPT ![i] =
                            T_RunCall(@, OwnVisited(threads, i), @.stack,
                                      T_Top(@).parents[T_Top(@).i], PassedColumn(T_Top(@)))]
    /\ UNCHANGED <<rows, graph, obj_def_map, col_name, start_view, visited, stack, ret,
                   chain_out, condensed, pc, runs>>
    /\ UNCHANGED classify_vars /\ UNCHANGED condense_vars
    /\ UNCHANGED graph_vars /\ UNCHANGED diagram_vars

\* Resume, for thread t
T_Resume(t) ==
    IF t.ret[1].val # <<>>
    THEN T_Return(t, T_Pop(t), Seen(T_Top(t), T_Top(t).parents[T_Top(t).i], t.ret[1].val),
                  Adopt(T_Top(t), T_Top(t).col, T_Top(t).parents[T_Top(t).i], t.ret[1].val),
                  TRUE)
    ELSE [t EXCEPT !.ret = <<>>,
                   !.stack = [t.stack EXCEPT ![Len(t.stack)] =
                                 [Seen(T_Top(t), T_Top(t).parents[T_Top(t).i], t.ret[1].val)
                                     EXCEPT !.i = @ + 1]]]

\* the call a thread's loop made returned (lines 391-394, 409-412)
ThreadResume ==
    /\ \E i \in 1..Len(threads) :
          /\ threads[i].pc = "running" /\ threads[i].stack # <<>> /\ threads[i].ret # <<>>
          /\ threads' = [threads EXCEPT ![i] = T_Resume(@)]
    /\ UNCHANGED <<rows, graph, obj_def_map, col_name, start_view, visited, stack, ret,
                   chain_out, condensed, calls, pc, runs>>
    /\ UNCHANGED classify_vars /\ UNCHANGED condense_vars
    /\ UNCHANGED graph_vars /\ UNCHANGED diagram_vars

\* a thread's loop ran out of parents (lines 395, 413)
ThreadLoopEnd ==
    /\ \E i \in 1..Len(threads) :
          /\ threads[i].pc = "running" /\ threads[i].stack # <<>> /\ threads[i].ret = <<>>
          /\ T_Top(threads[i]).i > Len(T_Top(threads[i]).parents)
          /\ threads' = [threads EXCEPT ![i] =
                            T_Return(@, T_Pop(@), T_Top(@),
                                     LoopEndValue(T_Top(@), T_Top(@).col), TRUE)]
    /\ UNCHANGED <<rows, graph, obj_def_map, col_name, start_view, visited, stack, ret,
                   chain_out, condensed, calls, pc, runs>>
    /\ UNCHANGED classify_vars /\ UNCHANGED condense_vars
    /\ UNCHANGED graph_vars /\ UNCHANGED diagram_vars

NextConcurrent == ThreadEnter \/ ThreadCall \/ ThreadResume \/ ThreadLoopEnd

SpecConcurrent == InitConcurrent /\ [][NextConcurrent]_vars
----------------------------------------------------------------------------
(* condense_if_no_calc run on its own, on chains of the lines trace_column    *)
(* writes.                                                                  *)

S_sum_amount == <<"S","U","M","(","a","m","o","u","n","t",")"," ","A","S"," ","t","o","t","a","l">>

CondenseLines ==
    {L_base_nodef("orders"), L_base_nodef("v_orders_calc"),
     L_base_noparent("orders"), L_base_noparent("v_orders_calc"),
     L_calc("v_orders_calc", S_sum_amount),
     L_nf_leaf("total", "v_orders_calc"),
     L_nf_parent("total", "v_orders_calc", "orders"),
     L_nf_fallback("total", "v_orders_calc"),
     L_pass_leaf("total", "v_orders_calc"),
     L_pass_note("total", "v_orders_calc"),
     L_parent_note("orders")}

InitCondense ==
    /\ TraceIdle /\ ClassifyIdle /\ AsideIdle
    /\ k_chain \in UNION {[1..n -> CondenseLines] : n \in 0..MaxChain}
    /\ k_col \in {"total", "id"}
    /\ k_out = <<>>
    /\ k_pc = "ready"

CondenseRun ==
    /\ k_pc = "ready"
    /\ k_out' = condense_if_no_calc(k_chain, k_col)
    /\ k_pc' = "done"
    /\ UNCHANGED <<k_chain, k_col>>
    /\ UNCHANGED trace_vars /\ UNCHANGED classify_vars /\ UNCHANGED aside_vars

SpecCondense == InitCondense /\ [][CondenseRun]_vars

----------------------------------------------------------------------------
(* parse_column_expression run on its own. *)

InitClassify ==
    /\ TraceIdle /\ CondenseIdle /\ AsideIdle
    /\ c_sql \in GeneratedSql \cup SpecialSql
    /\ c_col \in ClassifyColumns
    /\ c_out = <<None, <<>>>>
    /\ c_pc = "ready"

Classify ==
    /\ c_pc = "ready"
    /\ c_out' = parse_column_expression(c_sql, c_col)
    /\ c_pc' = "done"
    /\ UNCHANGED <<c_sql, c_col>>
    /\ UNCHANGED trace_vars /\ UNCHANGED condense_vars /\ UNCHANGED aside_vars

SpecClassify == InitClassify /\ [][Classify]_vars

----------------------------------------------------------------------------
(* The properties.  They speak of the inputs (rows, obj_def_map, the texts)  *)
(* and of the kinds of line, and do not go through the graph lookups of the *)
(* tracer or the text tests of the condenser.                               *)

\* s is a parent of v: some edge runs from s to v
IsParentOf(s, v) == \E i \in 1..Len(rows) : rows[i] = <<s, v>>

\* the place of s among the sources of the edges, in order of first appearance
KeyPos(s) ==
    CHOOSE i \in 1..Len(rows) : rows[i][1] = s /\ \A j \in 1..(i - 1) : rows[j][1] # s

\* a and b make the same visited key
SameKey(a, b) == str_lower(Chars(a)) = str_lower(Chars(b))

\* the classifier's verdict on column col_name in the definition of view
Verdict(view) ==
    IF DefGet(obj_def_map, view) = "" THEN "Base"
    ELSE classify(DefGet(obj_def_map, view), col_name)[1]

IsCalcStep(l) == l.t = "calc"
IsBaseStep(l) == l.t \in {"base_nodef", "base_noparent"}
IsNotFoundStep(l) == l.t \in {"nf_leaf", "nf_fallback"}

\* C1: every top-level trace returns, on every edge list, cycles and mutual
\* dependencies included: the top-level call returns at once or is in progress,
\* a trace in progress comes to its return, and no two calls in progress trace
\* the same (object, column) key.
C1_Terminates ==
    /\ [][pc = "start" => pc' \in {"running", "done"}]_vars
    /\ (pc = "running") ~> (pc = "done")
    /\ [](\A i, j \in 1..Len(stack) :
            i # j => ~SameKey(stack[i].view, stack[j].view))

\* a trace that came back to its starting object through a cycle has returned
C1_Witness ==
    /\ pc = "done"
    /\ \E j \in 2..Len(calls) : SameKey(calls[j][2], start_view)

\* C2: the chain a top-level trace returns has at least one step.
C2_NonEmptyChain == pc \in {"done", "rendered"} => Len(chain_out) >= 1

\* a pass-through whose only parent is already visited, and a NotFound start
\* whose parents are all visited: the chain holds the one line of the start
C2_Witness ==
    /\ pc = "done"
    /\ \E s \in Objects : IsParentOf(s, start_view)
    /\ \A s \in Objects : IsParentOf(s, start_view) => SameKey(s, start_view)
    /\ Verdict(start_view) = None
    /\ Len(chain_out) = 1

\* C3: a call on an object whose definition classifies the column as a
\* Calculation returns exactly the one Calculation step of that object, with the
\* stripped expression, and traces no parent: no call in its loop over parents
\* belongs to such an object.  In the end-to-end scenario column total of
\* v_orders_calc gives the single step Calculation "SUM(amount) AS total".
C3_CalculationStops ==
    /\ \A i \in 1..Len(stack) : Verdict(stack[i].view) # True
    /\ (ret # <<>> /\ ret[1].expanded /\ Verdict(ret[1].frame.view) = True) =>
          /\ Len(ret[1].val) = 1
          /\ IsCalcStep(ret[1].val[1])
          /\ ret[1].val[1].a[1] = ret[1].frame.view
          /\ ret[1].val[1].a[2] =
                str_strip(classify(DefGet(obj_def_map, ret[1].frame.view), col_name)[2])
          /\ ret[1].frame.subs = <<>>
    /\ (pc = "done" /\ E2E /\ start_view = "v_orders_calc" /\ col_name = "total") =>
          /\ chain_out = <<L_calc("v_orders_calc", S_sum_amount)>>
          /\ Render(chain_out[1])
                = <<"*"," ","C","a","l","c","u","l","a","t","i","o","n"," ","i","n"," ","'","v","_","o","r","d","e","r","s","_","c","a","l","c","'",":"," ","S","U","M","(","a","m","o","u","n","t",")"," ","A","S"," ","t","o","t","a","l">>
          /\ calls = <<<<1, "v_orders_calc", "total">>>>

C3_Witness ==
    /\ pc = "done" /\ E2E /\ start_view = "v_orders_calc" /\ col_name = "total"
    /\ IsParentOf("orders", "v_orders_calc")
    /\ Len(chain_out) = 1 /\ IsCalcStep(chain_out[1])

\* the parents the call of frame f has traced are the first of its parents in
\* graph order, each one traced once, and all but the last returned nothing
TracedInOrder(f) ==
    /\ \A j \in 1..Len(f.subs) : IsParentOf(f.subs[j].prt, f.view)
    /\ \A j \in 1..(Len(f.subs) - 1) :
          /\ KeyPos(f.subs[j].prt) < KeyPos(f.subs[j + 1].prt)
          /\ f.subs[j].val = <<>>
    /\ \A s \in Objects :
          (/\ IsParentOf(s, f.view)
           /\ \E j \in 1..Len(f.subs) : KeyPos(s) < KeyPos(f.subs[j].prt))
          => \E j \in 1..Len(f.subs) : f.subs[j].prt = s

\* the chain of frame f once parent prt returned sub
AdoptedChain(f, prt, sub) ==
    IF f.branch = "notfound"
    THEN <<L_nf_parent(col_name, f.view, prt)>> \o sub
    ELSE <<L_pass_note(col_name, f.view), L_parent_note(prt)>> \o sub

\* what the call of frame f returned as val, its last traced parent being last
FirstSuccess(f, val, last) ==
    IF last.val # <<>>
    THEN val = AdoptedChain(f, last.prt, last.val)
    ELSE /\ \A s \in Objects :
              IsParentOf(s, f.view) => \E j \in 1..Len(f.subs) : f.subs[j].prt = s
         /\ val = IF f.branch = "notfound"
                  THEN <<L_nf_fallback(col_name, f.view)>>
                  ELSE <<L_pass_note(col_name, f.view)>>

\* C4: a NotFound or PassThrough object with several parents traces them one at
\* a time in the graph's parent order, adopts the first chain that is not empty,
\* behind its note that names that parent, and traces no parent after it.
C4_FirstParentWins ==
    /\ \A i \in 1..Len(stack) :
          /\ TracedInOrder(stack[i])
          /\ \A j \in 1..Len(stack[i].subs) : stack[i].subs[j].val = <<>>
    /\ (ret # <<>> /\ ret[1].frame.branch \in {"notfound", "pass"}) =>
          /\ ret[1].frame.subs # <<>>
          /\ TracedInOrder(ret[1].frame)
          /\ FirstSuccess(ret[1].frame, ret[1].val,
                          ret[1].frame.subs[Len(ret[1].frame.subs)])

\* an object with two parents adopted the chain of the first and left the
\* second untraced
C4_Witness ==
    /\ ret # <<>> /\ ret[1].frame.branch \in {"notfound", "pass"}
    /\ \E s, t \in Objects :
          s # t /\ IsParentOf(s, ret[1].frame.view) /\ IsParentOf(t, ret[1].frame.view)
    /\ Len(ret[1].frame.subs) = 1
    /\ ret[1].frame.subs[1].val # <<>>

E2E_id == E2E /\ start_view = "v_orders_calc" /\ col_name = "id"

\* C5 as stated: in the end-to-end scenario column id of v_orders_calc gives
\* [PassThrough in v_orders_calc, BaseObjectReached orders], condensed to the
\* single step that says the column is the same as 'orders'.
C5_Original ==
    (pc = "rendered" /\ E2E_id) =>
        /\ Len(chain_out) = 2
        /\ chain_out[1].t \in {"pass_note", "pass_leaf"}
        /\ chain_out[1].a = <<"id", "v_orders_calc">>
        /\ chain_out[2] = L_base_nodef("orders")
        /\ condensed = <<L_same_as("id", Chars("orders"))>>

\* C5: in the end-to-end scenario column id of v_orders_calc, which has no alias
\* in the view, gives the note that id is not explicitly in v_orders_calc and
\* that parent orders is checked, then BaseObjectReached orders; condensed, the
\* single step that says the column is the same as 'orders'.
C5_NotFoundThenBase ==
    (pc = "rendered" /\ E2E_id) =>
        /\ chain_out = <<L_nf_parent("id", "v_orders_calc", "orders"),
                         L_base_nodef("orders")>>
        /\ Render(chain_out[1])
              = <<"'","i","d","'"," ","n","o","t"," ","e","x","p","l","i","c","i","t","l","y"," ","i","n"," ","'","v","_","o","r","d","e","r","s","_","c","a","l","c","'",","," ","c","h","e","c","k"," ","p","a","r","e","n","t"," ","'","o","r","d","e","r","s","'",":">>
        /\ Render(chain_out[2]) = <<"*"," ","R","e","a","c","h","e","d"," ","b","a","s","e"," ","o","b","j","e","c","t"," ","'","o","r","d","e","r","s","'"," ","(","n","o"," ","S","Q","L"," ","d","e","f","i","n","i","t","i","o","n",")",".">>
        /\ Len(condensed) = 1
        /\ Render(condensed[1]) = <<"C","o","l","u","m","n"," ","'","i","d","'"," ","=",">"," ","s","a","m","e"," ","a","s"," ","'","o","r","d","e","r","s","'"," ","(","n","o"," ","c","a","l","c","u","l","a","t","i","o","n",")">>

C5_Witness == pc = "rendered" /\ E2E_id /\ Len(chain_out) = 2 /\ Len(condensed) = 1

\* the column is NotFound in the starting view and in every parent view
NotFoundEverywhere ==
    /\ Verdict(start_view) = None
    /\ \A s \in Objects : IsParentOf(s, start_view) => Verdict(s) = None

ProjectionsOf(target) ==
    {<<target>>} \cup {<<o, target>> : o \in {I_id, I_x_as_id}}
                 \cup {<<target, o>> : o \in {I_id, I_x_as_id}}

ClassifiedAs(target, found_calc) ==
    (\E items \in ProjectionsOf(target), tail \in SqlTails : c_sql = BuildSql(items, tail))
    => c_out[1] = found_calc

\* C7 as stated: for column total the classifier gives PassThrough on
\* `a AS total` and on `a+b AS total`, and Calculation on `SUM(x) AS total`,
\* whether the projection has one item or several.
C7_Original ==
    (c_pc = "done" /\ c_col = N_total) =>
        /\ ClassifiedAs(I_a_as_total, False)
        /\ ClassifiedAs(I_ab_as_total, False)
        /\ ClassifiedAs(I_sum_as_total, True)

\* C8: the classifier gives NotFound exactly with the empty snippet: on a text
\* that is empty, blank or no SELECT statement, and on a text in which no
\* expression carries the alias marker of the column; a snippet that is not
\* empty comes only with Calculation or PassThrough, and holds the marker.
C8_NotFoundIffEmptySnippet ==
    c_pc = "done" =>
        /\ c_out[1] \in {None, True, False}
        /\ c_out[1] = None <=> c_out[2] = <<>>
        /\ c_sql \in {Q_empty, Q_blank, Q_no_select, Q_garbage} => c_out = <<None, <<>>>>
        /\ ~Contains(<<" ","a","s"," ">> \o str_lower(c_col), str_lower(c_sql))
              => c_out = <<None, <<>>>>
        /\ c_out[2] # <<>> => Contains(<<" ","a","s"," ">> \o str_lower(c_col), str_lower(c_out[2]))

\* a projection of two items, neither of which aliases the column
C8_Witness ==
    /\ c_pc = "done"
    /\ c_col = N_id
    /\ c_sql = BuildSql(<<I_id, I_sum_as_total>>, <<>>)
    /\ c_out = <<None, <<>>>>

NoCalcStep(chain_lines) == \A i \in 1..Len(chain_lines) : ~IsCalcStep(chain_lines[i])
BaseSteps(chain_lines) == {i \in 1..Len(chain_lines) : IsBaseStep(chain_lines[i])}
LastBaseStep(chain_lines) ==
    CHOOSE i \in BaseSteps(chain_lines) : \A j \in BaseSteps(chain_lines) : j <= i

\* C9: a chain with no Calculation step and at least one BaseObjectReached step
\* condenses to exactly one step, which names the column and the target of the
\* last BaseObjectReached step.
C9_CondenseToLastBase ==
    (k_pc = "done" /\ NoCalcStep(k_chain) /\ BaseSteps(k_chain) # {}) =>
        /\ k_out = <<L_same_as(k_col, Chars(k_chain[LastBaseStep(k_chain)].a[1]))>>
        /\ Contains(<<"C","o","l","u","m","n"," ","'">> \o Chars(k_col) \o <<"'">>, Render(k_out[1]))
        /\ Contains(<<"s","a","m","e"," ","a","s"," ","'">> \o Chars(k_chain[LastBaseStep(k_chain)].a[1]) \o <<"'">>,
                    Render(k_out[1]))

\* a chain with two BaseObjectReached steps of different targets was condensed
C9_Witness ==
    /\ k_pc = "done" /\ NoCalcStep(k_chain)
    /\ \E i, j \in BaseSteps(k_chain) : i < j /\ k_chain[i].a[1] # k_chain[j].a[1]
    /\ Len(k_out) = 1

\* C10: condensing leaves its input as it was, and returns it unchanged when it
\* holds a Calculation step and when it holds neither a Calculation nor a
\* BaseObjectReached step.
C10_CondenseKeeps ==
    [][(k_pc = "ready" /\ k_pc' = "done") =>
          /\ k_chain' = k_chain
          /\ (~NoCalcStep(k_chain) \/ BaseSteps(k_chain) = {}) => k_out' = k_chain]_vars

\* a chain with a Calculation step and a BaseObjectReached step came back whole
C10_Witness ==
    /\ k_pc = "done"
    /\ ~NoCalcStep(k_chain) /\ BaseSteps(k_chain) # {}
    /\ k_out = k_chain

\* the elements of a sequence
SeqSet(s) == {s[i] : i \in 1..Len(s)}

\* the edges of an edge list: the rows that name a source and a dependent, with
\* the blanks around the names dropped
EdgeSet(rs) ==
    {<<Str(str_strip(Chars(rs[i][1]))), Str(str_strip(Chars(rs[i][2])))>> :
        i \in {k \in 1..Len(rs) :
                 /\ str_strip(Chars(rs[k][1])) \notin {<<>>, <<"n","a","n">>, <<"N","a","N">>}
                 /\ str_strip(Chars(rs[k][2])) \notin {<<>>, <<"n","a","n">>, <<"N","a","N">>}}}

C12_SameChainAgain ==
    pc = "done" => \A i \in 1..Len(runs) : runs[i] = chain_out

\* a trace through a parent was made again and returned the same chain
C12_Witness ==
    /\ pc = "done" /\ runs # <<>>
    /\ Len(calls) >= 2
    /\ Len(chain_out) >= 2
    /\ runs[1] = chain_out

\* C13: a call on an object without a definition, absent from the map or mapped
\* to the empty text, with or without edges, returns exactly the one
\* BaseObjectReached step that names the object, and enters no loop over
\* parents; at top level it is the only call made.
C13_NoDefinitionIsBase ==
    /\ \A i \in 1..Len(stack) : DefGet(obj_def_map, stack[i].view) # ""
    /\ (ret # <<>> /\ ret[1].expanded /\ DefGet(obj_def_map, ret[1].frame.view) = "") =>
          /\ ret[1].val = <<L_base_nodef(ret[1].frame.view)>>
          /\ Render(ret[1].val[1])
                = <<"*"," ","R","e","a","c","h","e","d"," ","b","a","s","e"," ","o","b","j","e","c","t"," ","'">> \o Chars(ret[1].frame.view)
                  \o <<"'"," ","(","n","o"," ","S","Q","L"," ","d","e","f","i","n","i","t","i","o","n",")",".">>
          /\ ret[1].frame.branch = "enter"
          /\ ret[1].frame.subs = <<>>
    /\ (pc = "done" /\ DefGet(obj_def_map, start_view) = "") =>
          /\ chain_out = <<L_base_nodef(start_view)>>
          /\ Len(calls) = 1

\* an object absent from the map that has a parent was traced
C13_Witness ==
    /\ pc = "done"
    /\ start_view \notin DOMAIN obj_def_map
    /\ \E s \in Objects : IsParentOf(s, start_view) /\ ~SameKey(s, start_view)
    /\ chain_out = <<L_base_nodef(start_view)>>

\* the distinct object names of the dependency graph
GraphObjects == {rows[i][1] : i \in 1..Len(rows)} \cup {rows[i][2] : i \in 1..Len(rows)}

\* the step makes a call that gets past the visited test
Expands ==
    /\ calls' # calls
    /\ Len(stack') > Len(stack) \/ (ret' # <<>> /\ ret'[1].expanded)

\* the lowercased pair of every object and column of the traces
LowerPair == [n \in Objects, c \in TraceColumns |-> <<str_lower(Chars(n)), str_lower(Chars(c))>>]

\* the call made last is on a pair that an earlier call was made on
CalledBefore(all) ==
    \E i \in 1..(Len(all) - 1) :
        LowerPair[all[i][2], all[i][3]] = LowerPair[all[Len(all)][2], all[Len(all)][3]]

\* C15: within one top-level trace every (object, column) pair is expanded at
\* most once, and no call is nested deeper than the number of distinct object
\* names of the graph plus one.
C15_ExpandedOnceDepthBounded ==
    /\ [][Expands => ~CalledBefore(calls')]_vars
    /\ [](\A j \in 1..Len(calls) : calls[j][1] <= Cardinality(GraphObjects) + 1)
    /\ [](Len(stack) <= Cardinality(GraphObjects))

\* a cycle over two objects took the calls to the depth of three
C15_Witness ==
    /\ pc = "done"
    /\ Cardinality(GraphObjects) = 2
    /\ \E j \in 1..Len(calls) : calls[j][1] = 3

\* C17: a call returns the empty chain if and only if an earlier call of the
\* same top-level trace was made on its pair, names compared without regard to
\* case; a call on a pair not called before, and a loop over parents, returns
\* a chain that is not empty.  The map and the graph are read with the name as
\* it is written.
C17_EmptyIffVisited ==
    /\ [](calls = <<>> => visited = {})
    /\ [](ret # <<>> =>
            /\ ret[1].expanded <=> ret[1].val # <<>>
            /\ (ret[1].expanded /\ ret[1].frame.view \notin DOMAIN obj_def_map)
                  => ret[1].val = <<L_base_nodef(ret[1].frame.view)>>
            /\ ret[1].frame.branch # "enter" =>
                  SeqSet(ret[1].frame.parents)
                      = {s \in Objects : IsParentOf(s, ret[1].frame.view)})
    /\ [][IF calls' # calls
          THEN /\ visited' = visited \cup {LowerPair[calls'[Len(calls')][2],
                                                        calls'[Len(calls')][3]]}
               /\ CalledBefore(calls') <=> (ret' # <<>> /\ ret'[1].val = <<>>)
          ELSE visited' = visited]_vars

\* the call on an object whose name differs only in case from one called before
\* returned the empty chain
C17_Witness ==
    /\ ret # <<>> /\ ret[1].val = <<>>
    /\ \E i \in 1..(Len(calls) - 1) :
          /\ calls[i][2] # calls[Len(calls)][2]
          /\ SameKey(calls[i][2], calls[Len(calls)][2])

\* the pairs <<a, b>> with a path of edges from a to b, R the edges and n the
\* number of rounds
RECURSIVE Paths(_, _)
Paths(R, n) ==
    IF n = 0 THEN R
    ELSE Paths(R \cup {<<a[1], b[2]>> : a \in {x \in R : \E y \in R : x[2] = y[1]},
                                        b \in {y \in R : \E x \in R : x[2] = y[1]}}, n - 1)

Acyclic ==
    \A e \in Paths({<<rows[i][1], rows[i][2]>> : i \in 1..Len(rows)}, Len(rows)) :
        \A f \in Paths({<<rows[i][1], rows[i][2]>> : i \in 1..Len(rows)}, Len(rows)) :
            ~(e[2] = f[1] /\ f[2] = e[1]) /\ e[1] # e[2]

\* C18 as stated: on an acyclic graph the trace expands one path, each call on
\* the first parent of the object of the call before, no call returns the empty
\* chain, the fallback step is never produced, and the chain ends in a
\* Calculation step, a BaseObjectReached step or the NotFound step of an object
\* without parents.
C18_Original ==
    Acyclic =>
        /\ ret # <<>> => ret[1].val # <<>>
        /\ \A i \in 1..Len(chain_out) : chain_out[i].t # "nf_fallback"
        /\ \A j \in 1..Len(calls) : calls[j][1] = j
        /\ \A j \in 2..Len(calls) :
              /\ IsParentOf(calls[j][2], calls[j - 1][2])
              /\ \A s \in Objects :
                    IsParentOf(s, calls[j - 1][2]) => KeyPos(calls[j][2]) <= KeyPos(s)
        /\ pc = "done" =>
              \/ IsCalcStep(chain_out[Len(chain_out)])
              \/ IsBaseStep(chain_out[Len(chain_out)])
              \/ /\ chain_out[Len(chain_out)].t = "nf_leaf"
                 /\ ~\E s \in Objects : IsParentOf(s, chain_out[Len(chain_out)].a[2])

\* the steps that name a column
NamesColumn(l) == l.t \in {"nf_leaf", "nf_parent", "nf_fallback", "pass_leaf", "pass_note"}

\* C19: every call of a top-level trace carries the column name of the
\* top-level call, also behind a PassThrough or NotFound hop into a parent, and
\* every step of the returned chain that names a column names that one.
C19_SameColumn ==
    /\ \A j \in 1..Len(calls) : calls[j][3] = col_name
    /\ \A i \in 1..Len(stack) : stack[i].col = col_name
    /\ pc \in {"done", "rendered"} =>
          \A i \in 1..Len(chain_out) :
              NamesColumn(chain_out[i]) => chain_out[i].a[1] = col_name

\* a PassThrough hop from `amount AS total` into a parent that was asked for
\* total again
C19_Witness ==
    /\ pc = "done"
    /\ Verdict(start_view) = False
    /\ Len(calls) >= 2 /\ calls[2][3] = "total"
    /\ chain_out[1].t = "pass_note"
    /\ chain_out[Len(chain_out)].t = "nf_leaf"
    /\ chain_out[Len(chain_out)].a[1] = "total"


\* no value occurs twice in s
NoRepeat(s) == \A i, j \in 1..Len(s) : s[i] = s[j] => i = j

\* the objects the diagram of g_name reaches along dependent -> source rows
RECURSIVE Upstream(_, _)
Upstream(S, n) ==
    IF n = 0 THEN S
    ELSE Upstream(S \cup {r[1] : r \in {x \in SeqSet(g_rows) : x[2] \in S}}, n - 1)

\* C16: an edge that occurs more than once in the edge list counts once.  The
\* parents of an object name each source once and are those of the list with
\* every repeated row dropped, and trace_column returns the same chain on both
\* lists; the diagram draws each dependent -> source edge once and each object
\* it reaches once.
C16_DuplicateEdgesCountOnce ==
    /\ NoRepeat(d_nodes) /\ NoRepeat(d_edges)
    /\ d_pc = "drawn" =>
          /\ SeqSet(d_nodes) = Upstream({g_name}, Len(g_rows))
          /\ SeqSet(d_edges) = {<<r[2], r[1]>> : r \in {x \in SeqSet(g_rows) : x[2] \in SeqSet(d_nodes)}}
    /\ g_pc = "built" =>
          /\ NoRepeat(g_parents)
          /\ g_parents = Parents(build_simple_graph(unique(g_rows)), g_name)
          /\ unique(g_rows) # g_rows =>
                \A defs \in SoloDefs :
                    trace_column("total", g_name, defs, g_graph)
                        = trace_column("total", g_name, defs,
                                       build_simple_graph(unique(g_rows)))

\* the edge list holds one edge twice; the diagram drew it once and the trace
\* through it is the trace through the single edge
C16_Witness ==
    /\ g_pc = "built" /\ d_pc = "drawn"
    /\ Len(g_rows) >= 2 /\ g_rows[1] = g_rows[2]
    /\ g_rows[1][2] = g_name /\ g_rows[1][1] \in Objects \ {g_name}
    /\ d_edges = <<<<g_name, g_rows[1][1]>>>>
    /\ g_parents = <<g_rows[1][1]>>
    /\ Len(trace_column("total", g_name, [o \in Objects |-> V_pass], g_graph)) = 4

\* C14: however the steps of the threads' top-level calls interleave, the
\* chain a thread's call returns is the chain trace_column returns for its
\* object and column when it runs alone; no step writes the edge list, the
\* graph or the definition map, and a step of one thread leaves the other
\* threads' visited sets and calls as they were.
C14_InterleavedSameAsAlone ==
    /\ [](\A i \in 1..Len(threads) :
            threads[i].pc = "done" =>
                threads[i].chain_out
                    = trace_column(threads[i].col, threads[i].start, obj_def_map, graph))
    /\ [][rows' = rows /\ graph' = graph /\ obj_def_map' = obj_def_map]_vars
    /\ [][\A i, j \in 1..Len(threads) :
            (i # j /\ threads'[i] # threads[i]) => threads'[j] = threads[j]]_vars

\* thread 1 made a call, then thread 2, then thread 1 again; both returned, they
\* visited an object in common, and thread 1's chain has more than one step
C14_Witness ==
    /\ Len(threads) >= 2
    /\ threads[1].pc = "done" /\ threads[2].pc = "done"
    /\ threads[1].visited \cap threads[2].visited # {}
    /\ Len(threads[1].chain_out) >= 2
    /\ threads[1].chain_out
          = trace_column(threads[1].col, threads[1].start, obj_def_map, graph)
    /\ \E a, b, c \in 1..Len(calls) :
          a < b /\ b < c /\ calls[a][1] = 1 /\ calls[b][1] = 2 /\ calls[c][1] = 1
====
